---- MODULE Spec2Model ----
(***************************************************************************)
(* Harvest forecasting pipeline of the strawberry predictor:               *)
(*   - create_ml_dataset       (backend/app/ml_dataset.py)      batch      *)
(*   - calculate_features      (backend/app/prediction_service.py)         *)
(*   - train_biological_model  (backend/app/ml_model.py)                   *)
(*   - generate_predictions    (backend/app/prediction_service.py)         *)
(*   - validate_predictions    (backend/app/validate_predictions.py)       *)
(*                                                                         *)
(* Dates are day numbers 1, 2, ...; day 1 is a Friday.  Floating point   *)
(* numbers are exact rationals [n, d]; d = 0 stands for NaN (n = 0) and    *)
(* for inf (n # 0), the values numpy yields instead of raising.            *)
(***************************************************************************)
EXTENDS Integers, Sequences, FiniteSets, TLC

\* ------------------------------------------------------------------ bounds
MaxDay == 5
MaxKg == 6
MaxMae == 2
ForecastDays == 2
NumVarieties == 2

Days == 1 .. MaxDay

\* Variety.id, in the insertion order of import_varieties
Varieties == 1 .. NumVarieties

\* alphabetical rank of Variety.name: 1 Clery, 2 Ciflorette, 3 Manon, 4 Dream
NameRank(v) == CASE v = 1 -> 2 [] v = 2 -> 1 [] v = 3 -> 4 [] v = 4 -> 3 [] OTHER -> v

\* ------------------------------------------------------- program constants
Window7 == 7
Window14 == 14
MinPeriods == 1
HistDays == 14
Sunday == 6

\* ------------------------------------------------------------- arithmetic
RECURSIVE GCD(_, _)
GCD(a, b) == IF b = 0 THEN a ELSE GCD(b, a % b)

Abs(x) == IF x < 0 THEN -x ELSE x

NaN == [n |-> 0, d |-> 0]

Inf == [n |-> 1, d |-> 0]

IsNaN(x) == x.d = 0 /\ x.n = 0

Rat(n, d) ==
    IF d = 0 THEN (IF n = 0 THEN NaN ELSE Inf)
    ELSE LET g == GCD(Abs(n), Abs(d))
             s == IF d < 0 THEN -1 ELSE 1
         IN  [n |-> (s * n) \div g, d |-> (s * d) \div g]

I(k) == [n |-> k, d |-> 1]

RAdd(a, b) == IF a.d = 0 \/ b.d = 0 THEN NaN ELSE Rat(a.n * b.d + b.n * a.d, a.d * b.d)

RSub(a, b) == IF a.d = 0 \/ b.d = 0 THEN NaN ELSE Rat(a.n * b.d - b.n * a.d, a.d * b.d)

RMul(a, b) == IF a.d = 0 \/ b.d = 0 THEN NaN ELSE Rat(a.n * b.n, a.d * b.d)

\* float division of numpy: x / 0 is inf, 0 / 0 is NaN, nothing is raised
RDiv(a, b) == IF IsNaN(a) \/ IsNaN(b) THEN NaN ELSE Rat(a.n * b.d, a.d * b.n)

RECURSIVE RSum(_)
RSum(s) == IF s = <<>> THEN I(0) ELSE RAdd(Head(s), RSum(Tail(s)))

NonNaN(s) == SelectSeq(s, LAMBDA x : ~IsNaN(x))

RECURSIVE SetToSortedSeq(_)
SetToSortedSeq(S) ==
    IF S = {} THEN <<>>
    ELSE LET m == CHOOSE x \in S : \A y \in S : x <= y
         IN  <<m>> \o SetToSortedSeq(S \ {m})

\* --------------------------------------------------------------- calendar
\* date.weekday() / dt.dayofweek: 0 = Monday ... 6 = Sunday
weekday(d) == (d + 3) % 7

\* day 1 is the 1st of January: dt.dayofyear, dt.month, isocalendar().week
day_of_year(d) == d

month(d) == IF d <= 31 THEN 1 ELSE 2

week_of_year(d) == IF d <= 3 THEN 53 ELSE ((d - 4) \div 7) + 1

\* ------------------------------------------------- harvest fraction tables
\* ml_dataset.py: harvest_fraction
harvest_fraction(dow) ==
    CASE dow \in {0, 1, 2} -> Rat(1, 3)
      [] dow \in {3, 4, 5} -> Rat(1, 2)
      [] OTHER             -> I(0)

\* a table that harvests a third of the plants on Thursday as well
harvest_fraction_map_thursday(dow) ==
    CASE dow \in {0, 1, 2, 3} -> Rat(1, 3)
      [] dow \in {4, 5}       -> Rat(1, 2)
      [] OTHER                -> I(0)

\* ml_model.py: harvest_fraction_map, stored in the model artifact
harvest_fraction_map(dow) ==
    CASE dow \in {0, 1, 2} -> Rat(1, 3)
      [] dow \in {3, 4, 5} -> Rat(1, 2)
      [] OTHER             -> I(0)

\* prediction_service.py, calculate_features: harvest_fraction_map (local)
calc_harvest_fraction_map(dow) ==
    CASE dow \in {0, 1, 2} -> Rat(1, 3)
      [] dow \in {3, 4, 5} -> Rat(1, 2)
      [] OTHER             -> I(0)

\* ------------------------------------------------------ capacity transform
\* ml_dataset.py 110-113: divide, then overwrite the zero-fraction rows with 0
batch_kg_biological(dow, kg) ==
    LET frac == harvest_fraction(dow)
        raw  == RDiv(kg, frac)
    IN  IF frac = I(0) THEN I(0) ELSE raw

\* prediction_service.py 98: kg_produced / harvest_fraction.replace(0, 1)
hist_kg_biological(dow, kg) ==
    LET frac == calc_harvest_fraction_map(dow)
    IN  RDiv(kg, IF frac = I(0) THEN I(1) ELSE frac)

\* validate_predictions.py 74-75
kg_biological_real(frac, kg) ==
    IF frac.n > 0 THEN RDiv(kg, frac) ELSE I(0)

\* ml_model.py 264-267: capacity -> observed with the row's day_of_week
kg_produced_pred(dow, bio) == RMul(bio, harvest_fraction_map(dow))

\* a conversion that stores the capacity unconverted
observed_fraction_whole(dow) == I(1)

\* prediction_service.py 250-251: harvest_fraction_map.get(weekday, 0)
observed_fraction(dow) ==
    IF dow \in 0 .. 6 THEN harvest_fraction_map(dow) ELSE I(0)

\* -------------------------------------------------------------- raw stores
NoHarvest == [kg_produced |-> -1, plants_nbrs |-> -1]

HarvestValues == { [kg_produced |-> 0, plants_nbrs |-> 0],
                   [kg_produced |-> 2, plants_nbrs |-> 3] }

NoWeather == [temperature_mean |-> NaN, humidity_mean |-> NaN, precipitation |-> NaN,
              sunshine_duration |-> NaN, solar_radiation |-> NaN]

\* the observation the weather archive holds for day d
WeatherFeed(d) ==
    [temperature_mean  |-> I(10 + ((3 * d) % 5)),
     humidity_mean     |-> I(60 + d),
     precipitation     |-> I(d % 3),
     sunshine_duration |-> I((2 * d) % 5),
     solar_radiation   |-> I(12 + (d % 4))]

WeatherColumns == {"temperature_mean", "humidity_mean", "precipitation",
                   "sunshine_duration", "solar_radiation"}

VARIABLES
    harvest,        \* HarvestRecord rows: variety -> day -> row or NoHarvest
    weather,        \* WeatherData rows: day -> row or NoWeather
    dataset,        \* /app/data/ml_dataset_simplified.csv
    model_data,     \* /app/data/strawberry_biological_model.pkl
    features,       \* the last call of calculate_features and what it returned
    train,          \* the locals of a run of train_biological_model
    plant_configs,  \* PlantConfiguration rows
    predictions,    \* Prediction rows, committed
    run,            \* the locals of a run of generate_predictions
    cron,           \* the scheduler job run_predictions around that run
    validation,     \* the locals of a run of validate_predictions
    conc,           \* two forecast runs and a reporting query side by side
    imp             \* import_harvest_data: the sheet, the session, the table rows

vars == <<harvest, weather, dataset, model_data, features, train, plant_configs,
          predictions, run, cron, validation, conc, imp>>

\* the state of the pipelines an action does not belong to
aux == <<validation, conc, imp>>

stores == <<harvest, weather, plant_configs>>

\* --------------------------------------------------- pandas window helpers
\* Series.rolling(w, min_periods=1): the last w rows up to and including row i
Window(col, i, w) == SubSeq(col, IF i > w THEN i - w + 1 ELSE 1, i)

\* rolling(w) without min_periods: a value only once the window is full
rolling_mean_full_window(col, i, w) ==
    LET vs == NonNaN(Window(col, i, w))
    IN  IF Len(vs) < w THEN NaN ELSE RDiv(RSum(vs), I(Len(vs)))

rolling_mean(col, i, w) ==
    LET vs == NonNaN(Window(col, i, w))
    IN  IF Len(vs) < MinPeriods THEN NaN ELSE RDiv(RSum(vs), I(Len(vs)))

rolling_sum(col, i, w) ==
    LET vs == NonNaN(Window(col, i, w))
    IN  IF Len(vs) < MinPeriods THEN NaN ELSE RSum(vs)

\* Series.shift(1)
shift1(col, i) == IF i = 1 THEN NaN ELSE col[i - 1]

\* DataFrame.tail(n)
tail(s, n) == IF Len(s) > n THEN SubSeq(s, Len(s) - n + 1, Len(s)) ELSE s

\* Series.mean() / Series.sum(): NaN skipped, mean of nothing is NaN, sum is 0
series_mean(s) ==
    LET vs == NonNaN(s)
    IN  IF vs = <<>> THEN NaN ELSE RDiv(RSum(vs), I(Len(vs)))

series_sum(s) == RSum(NonNaN(s))

\* ------------------------------------------------ create_ml_dataset (batch)
\* harvest rows of variety v joined (how='left') with the weather of their date,
\* in date order: one variety's block of sort_values(['variety', 'date'])
merged(h, w, v) ==
    LET ds == SetToSortedSeq({d \in Days : h[v][d] # NoHarvest})
    IN  [i \in 1 .. Len(ds) |->
            [variety           |-> v,
             date              |-> ds[i],
             kg_produced       |-> I(h[v][ds[i]].kg_produced),
             plants_nbrs       |-> I(h[v][ds[i]].plants_nbrs),
             temperature_mean  |-> w[ds[i]].temperature_mean,
             humidity_mean     |-> w[ds[i]].humidity_mean,
             precipitation     |-> w[ds[i]].precipitation,
             sunshine_duration |-> w[ds[i]].sunshine_duration,
             solar_radiation   |-> w[ds[i]].solar_radiation]]

Col(rows, name) == [i \in 1 .. Len(rows) |-> rows[i][name]]

\* steps 4-6 for one variety: every rolling, lag and calendar column
variety_features(h, w, v) ==
    LET m   == merged(h, w, v)
        bio == [i \in 1 .. Len(m) |-> batch_kg_biological(weekday(m[i].date), m[i].kg_produced)]
        kg  == Col(m, "kg_produced")
    IN  [i \in 1 .. Len(m) |->
            LET t7 == rolling_mean(Col(m, "temperature_mean"), i, Window7)
            IN [variety                 |-> v,
                date                    |-> m[i].date,
                kg_produced             |-> m[i].kg_produced,
                plants_nbrs             |-> m[i].plants_nbrs,
                temperature_mean        |-> m[i].temperature_mean,
                humidity_mean           |-> m[i].humidity_mean,
                precipitation           |-> m[i].precipitation,
                sunshine_duration       |-> m[i].sunshine_duration,
                solar_radiation         |-> m[i].solar_radiation,
                temp_mean_7d            |-> t7,
                humidity_mean_7d        |-> rolling_mean(Col(m, "humidity_mean"), i, Window7),
                precipitation_7d_sum    |-> rolling_sum(Col(m, "precipitation"), i, Window7),
                sunshine_7d_sum         |-> rolling_sum(Col(m, "sunshine_duration"), i, Window7),
                solar_radiation_7d_mean |-> rolling_mean(Col(m, "solar_radiation"), i, Window7),
                kg_produced_7d_mean     |-> rolling_mean(kg, i, Window7),
                kg_produced_7d_sum      |-> rolling_sum(kg, i, Window7),
                kg_produced_prev_day    |-> shift1(kg, i),
                day_of_week             |-> weekday(m[i].date),
                harvest_fraction        |-> harvest_fraction(weekday(m[i].date)),
                kg_biological           |-> bio[i],
                kg_biological_7d_mean   |-> rolling_mean(bio, i, Window7),
                kg_biological_14d_mean  |-> rolling_mean(bio, i, Window14),
                kg_biological_prev_day  |-> shift1(bio, i),
                month                   |-> month(m[i].date),
                week_of_year            |-> week_of_year(m[i].date),
                day_of_year             |-> day_of_year(m[i].date),
                days_since_season_start |-> m[i].date - m[1].date,
                temp_delta              |-> RSub(m[i].temperature_mean, t7),
                kg_per_plant            |-> RDiv(m[i].kg_produced, RAdd(m[i].plants_nbrs, I(1)))]]

FloatColumns == {"kg_produced", "plants_nbrs", "temperature_mean", "humidity_mean",
                 "precipitation", "sunshine_duration", "solar_radiation", "temp_mean_7d",
                 "humidity_mean_7d", "precipitation_7d_sum", "sunshine_7d_sum",
                 "solar_radiation_7d_mean", "kg_produced_7d_mean", "kg_produced_7d_sum",
                 "kg_produced_prev_day", "harvest_fraction", "kg_biological",
                 "kg_biological_7d_mean", "kg_biological_14d_mean",
                 "kg_biological_prev_day", "temp_delta", "kg_per_plant"}

\* the varieties in the order sort_values(['variety', 'date']) puts their names
VarietiesByName == 
    LET byRank == SetToSortedSeq({NameRank(v) : v \in Varieties})
    IN  [i \in 1 .. Len(byRank) |-> CHOOSE v \in Varieties : NameRank(v) = byRank[i]]

RECURSIVE ConcatBlocks(_, _, _)
ConcatBlocks(h, w, vs) ==
    IF vs = <<>> THEN <<>>
    ELSE variety_features(h, w, Head(vs)) \o ConcatBlocks(h, w, Tail(vs))

\* the table before step 7
all_features(h, w) == ConcatBlocks(h, w, VarietiesByName)

\* DataFrame.dropna(): a row with a NaN in any column goes
HasNaN(row) == \E c \in FloatColumns : IsNaN(row[c])

\* step 7: drop the Sundays, then the rows with a missing value
dataset_clean(table) ==
    LET noSunday == SelectSeq(table, LAMBDA r : r.day_of_week # Sunday)
    IN  SelectSeq(noSunday, LAMBDA r : ~HasNaN(r))

\* table: the frame after step 6; rows: dataset_clean, written to the csv
\* ml_model.py 46-96: the feature list of the trainer, in its order
FeatureColumns ==
    <<"variety_encoded", "plants_nbrs", "month", "week_of_year", "day_of_year",
      "day_of_week", "days_since_season_start", "temperature_mean", "humidity_mean",
      "precipitation", "sunshine_duration", "solar_radiation", "temp_mean_7d",
      "humidity_mean_7d", "precipitation_7d_sum", "sunshine_7d_sum",
      "solar_radiation_7d_mean", "temp_delta", "kg_biological_prev_day",
      "kg_biological_7d_mean", "kg_biological_14d_mean", "kg_per_plant">>

\* the columns of the file create_ml_dataset writes
CsvColumns ==
    ({FeatureColumns[i] : i \in 1 .. Len(FeatureColumns)} \ {"variety_encoded"})
    \cup {"date", "variety", "kg_produced", "harvest_fraction", "kg_biological",
          "kg_produced_7d_mean", "kg_produced_7d_sum", "kg_produced_prev_day"}

\* a builder that drops the Sunday records before it computes the features
create_ml_dataset_filter_first(h, w) ==
    LET hw == [v \in Varieties |->
                 [d \in Days |-> IF weekday(d) = Sunday THEN NoHarvest ELSE h[v][d]]]
    IN  [built |-> TRUE, table |-> all_features(hw, w),
         rows |-> dataset_clean(all_features(hw, w)), columns |-> CsvColumns]

create_ml_dataset(h, w) ==
    [built |-> TRUE, table |-> all_features(h, w), rows |-> dataset_clean(all_features(h, w)),
     columns |-> CsvColumns]

\* ------------------------------------------ calculate_features (incremental)
\* variety_mapping is {code: name}; the first code whose name matches, else 0
variety_encoded(md, v) ==
    LET ks == {k \in DOMAIN md.variety_mapping : md.variety_mapping[k] = v}
    IN  IF ks = {} THEN 0 ELSE (CHOOSE k \in ks : \A j \in ks : k <= j) - 1

\* lines 75-82: the harvest rows of the 14 days before the target, by date
hist_dates(h, v, target) ==
    SetToSortedSeq({d \in Days : /\ d >= target - HistDays
                                 /\ d <= target - 1
                                 /\ h[v][d] # NoHarvest})

\* lines 101-104: the weather rows of the same days, by date
weather_hist_dates(w, target) ==
    SetToSortedSeq({d \in Days : /\ d >= target - HistDays
                                 /\ d <= target - 1
                                 /\ w[d] # NoWeather})

\* lines 88-173: the feature dict
feature_values(h, w, v, plants, target, fc, md) ==
    LET hd  == hist_dates(h, v, target)
        bio == [i \in 1 .. Len(hd) |->
                   hist_kg_biological(weekday(hd[i]), I(h[v][hd[i]].kg_produced))]
        wd  == weather_hist_dates(w, target)
        wdf == [i \in 1 .. Len(wd) |-> w[wd[i]]]
        prev == IF Len(hd) > 0 THEN bio[Len(hd)] ELSE I(0)
        t7   == series_mean(Col(tail(wdf, Window7), "temperature_mean"))
    IN  [kind                    |-> "features",
         variety_encoded         |-> variety_encoded(md, v),
         plants_nbrs             |-> I(plants),
         month                   |-> month(target),
         week_of_year            |-> week_of_year(target),
         day_of_year             |-> day_of_year(target),
         day_of_week             |-> weekday(target),
         days_since_season_start |-> target - 1,
         temperature_mean        |-> fc.temperature_mean,
         humidity_mean           |-> fc.humidity_mean,
         precipitation           |-> fc.precipitation,
         sunshine_duration       |-> fc.sunshine_duration,
         solar_radiation         |-> fc.solar_radiation,
         temp_mean_7d            |-> t7,
         humidity_mean_7d        |-> series_mean(Col(tail(wdf, Window7), "humidity_mean")),
         precipitation_7d_sum    |-> series_sum(Col(tail(wdf, Window7), "precipitation")),
         sunshine_7d_sum         |-> series_sum(Col(tail(wdf, Window7), "sunshine_duration")),
         solar_radiation_7d_mean |-> series_mean(Col(tail(wdf, Window7), "solar_radiation")),
         temp_delta              |-> RSub(fc.temperature_mean, t7),
         kg_biological_prev_day  |-> prev,
         kg_biological_7d_mean   |-> series_mean(tail(bio, Window7)),
         kg_biological_14d_mean  |-> series_mean(bio),
         kg_per_plant            |-> IF plants > 0 THEN RDiv(prev, I(plants)) ELSE I(0)]

\* no early return: without history the lag features default to 0 / NaN
calculate_features_zero_default(h, w, v, plants, target, fc, md) ==
    IF weather_hist_dates(w, target) = <<>> THEN [kind |-> "KeyError"]
    ELSE feature_values(h, w, v, plants, target, fc, md)

\* None without harvest history; indexing the empty weather frame raises KeyError
calculate_features(h, w, v, plants, target, fc, md) ==
    IF hist_dates(h, v, target) = <<>> THEN [kind |-> "None"]
    ELSE IF weather_hist_dates(w, target) = <<>> THEN [kind |-> "KeyError"]
    ELSE feature_values(h, w, v, plants, target, fc, md)

\* ------------------------------------------------------------- input sets
PlantsValues == {0, 3}

EmptyTable == [d \in Days |-> NoHarvest]

FullTable == [d \in Days |-> [kg_produced |-> 2, plants_nbrs |-> 3]]

HarvestTables == [Days -> HarvestValues \cup {NoHarvest}]

\* import_weather_data stores whole periods: the days 1 .. last
WeatherUpTo(last) == [d \in Days |-> IF d <= last THEN WeatherFeed(d) ELSE NoWeather]

WeatherLasts == {0, MaxDay - 1, MaxDay}

NoDataset == [built |-> FALSE, table |-> <<>>, rows |-> <<>>, columns |-> {}]

NoFeatures == [variety |-> 0, target |-> 0, plants_nbrs |-> 0, f |-> [kind |-> "unset"]]

NoRun == [pc |-> "start", today |-> 0, days |-> 0, weather_forecasts |-> <<>>,
          vi |-> 1, day_offset |-> 1, total_predictions |-> 0, session |-> <<>>,
          skips |-> <<>>, attempted |-> 0, reported |-> -1, error |-> ""]

NoCron == [pc |-> "idle", log |-> <<>>]

NoValidation == [pc |-> "start", test_date |-> 0, days |-> 0, generate_first |-> FALSE,
                 day_offset |-> 1, results |-> <<>>, reports |-> <<>>, returned |-> "unset"]

NoConc == [pc |-> "unused", clock |-> 0, asked |-> FALSE, seen |-> 0, latest |-> <<>>]

NoImport == [pc |-> "unused"]

NoArtifact == [model_name |-> "", variety_mapping |-> <<>>, feature_columns |-> <<>>]

\* an artifact trained on every variety: variety_mapping in name order
DefaultArtifact ==
    [model_name      |-> "Random Forest",
     variety_mapping |-> VarietiesByName,
     feature_columns |-> FeatureColumns]

\* ------------------------------------------------- train_biological_model
CvFolds == 5

\* the models dict, in declaration order
Candidates == <<"Random Forest", "Gradient Boosting">>

\* int(len(df_sorted) * 0.8)
split_idx(n) == (n * 8) \div 10

\* X.iloc[:split_idx], X.iloc[split_idx:]: X = df[feature_columns] keeps the row
\* order of df, the order of the csv file
X_train(df) == SubSeq(df, 1, split_idx(Len(df)))

X_test(df) == SubSeq(df, split_idx(Len(df)) + 1, Len(df))

\* a < b on floats, b possibly float('inf')
RLess(a, b) == IF b = Inf THEN a # Inf ELSE a # Inf /\ a.n * b.d < b.n * a.d

\* last-declared wins a tie
improves_or_ties(mae, best_score) == mae = best_score \/ RLess(mae, best_score)

\* if mae < best_score
improves(mae, best_score) == RLess(mae, best_score)

\* df['variety'].unique(): the varieties in the order they first appear
RECURSIVE unique(_)
unique(s) ==
    IF s = <<>> THEN <<>>
    ELSE LET u == unique(SubSeq(s, 1, Len(s) - 1))
         IN  IF \E i \in 1 .. Len(u) : u[i] = s[Len(s)] THEN u ELSE Append(u, s[Len(s)])

\* line 43: pd.Categorical(df['variety']).codes, the rank of the name among the
\* sorted names the file holds
categorical_code(df, v) ==
    Cardinality({u \in {df[i].variety : i \in 1 .. Len(df)} : NameRank(u) < NameRank(v)})

NoTrain == [pc |-> "start", df |-> <<>>, split_idx |-> 0, X_train |-> <<>>, X_test |-> <<>>,
            cand |-> 1, results |-> [c \in 1 .. Len(Candidates) |-> NaN],
            best_name |-> "", best_score |-> Inf,
            target |-> "", feature_columns |-> <<>>, missing_cols |-> <<>>, error |-> ""]

\* a trainer that rebuilds the target from the observed kg when it is missing
target_column_derived(columns) ==
    IF "kg_biological" \in columns THEN "kg_biological" ELSE "kg_produced"

\* lines 32-33, 109: the target is the column kg_biological or nothing
target_column(columns) ==
    IF "kg_biological" \in columns THEN "kg_biological" ELSE ""

\* line 43 adds variety_encoded; lines 99-103: the feature columns the file lacks
\* are printed and dropped from the list
missing_cols(columns) ==
    SelectSeq(FeatureColumns, LAMBDA c : c \notin columns \cup {"variety_encoded"})

feature_columns(columns) ==
    SelectSeq(FeatureColumns, LAMBDA c : c \in columns \cup {"variety_encoded"})

\* steps 1-3: read the csv, check the target, encode, select the features, split
TrainSplit ==
    /\ train.pc = "start"
    /\ dataset.built
    /\ LET df == dataset.rows
       IN  IF target_column(dataset.columns) = ""
           THEN train' = [train EXCEPT !.pc = "NoTarget",
                                       !.error = "ValueError: Colonne 'kg_biological' manquante"]
           ELSE IF Len(df) = 0
           THEN train' = [train EXCEPT !.pc = "IndexError"]
           ELSE train' = [train EXCEPT !.pc = "loop", !.df = df,
                                       !.target = target_column(dataset.columns),
                                       !.feature_columns = feature_columns(dataset.columns),
                                       !.missing_cols = missing_cols(dataset.columns),
                                       !.split_idx = split_idx(Len(df)),
                                       !.X_train = X_train(df), !.X_test = X_test(df)]
    /\ UNCHANGED <<aux, cron, stores, dataset, model_data, features, predictions, run>>

\* step 4, one candidate: fit, score on the held-out rows, cross-validate, keep
\* the best.  fit needs a row, cross_val_score(cv=5) needs five.
TrainCandidate ==
    /\ train.pc = "loop"
    /\ train.cand <= Len(Candidates)
    /\ IF Len(train.X_train) < CvFolds
       THEN train' = [train EXCEPT !.pc = "ValueError"]
       ELSE \E m \in 0 .. MaxMae :
              LET mae == I(m)
                  better == improves(mae, train.best_score)
              IN  train' = [train EXCEPT
                               !.results[train.cand] = mae,
                               !.best_score = IF better THEN mae ELSE @,
                               !.best_name = IF better THEN Candidates[train.cand] ELSE @,
                               !.cand = @ + 1]
    /\ UNCHANGED <<aux, cron, stores, dataset, model_data, features, predictions, run>>

\* steps 5-7: analyse the best model and write the artifact
TrainSave ==
    /\ train.pc = "loop"
    /\ train.cand > Len(Candidates)
    /\ train' = [train EXCEPT !.pc = "saved"]
    /\ model_data' = [model_name      |-> train.best_name,
                      variety_mapping |-> unique(Col(train.df, "variety")),
                      feature_columns |-> train.feature_columns]
    /\ UNCHANGED <<aux, cron, stores, dataset, features, predictions, run>>

\* the csv rows of variety v: its first k dates that are no Sunday
TrainDates == SetToSortedSeq({d \in Days : weekday(d) # Sunday})

CsvBlock(v, k) ==
    [i \in 1 .. k |-> [variety |-> v, date |-> TrainDates[i], day_of_week |-> weekday(TrainDates[i])]]

RECURSIVE CsvBlocks(_, _)
CsvBlocks(ks, vs) ==
    IF vs = <<>> THEN <<>> ELSE CsvBlock(Head(vs), ks[Head(vs)]) \o CsvBlocks(ks, Tail(vs))

\* the file as create_ml_dataset writes it: sorted by variety name, then date
CsvFile(ks) == CsvBlocks(ks, VarietiesByName)

Reverse(s) == [i \in 1 .. Len(s) |-> s[Len(s) + 1 - i]]

RECURSIVE InsertByDate(_, _)
InsertByDate(r, s) ==
    IF s = <<>> THEN <<r>>
    ELSE IF r.date < Head(s).date THEN <<r>> \o s
    ELSE <<Head(s)>> \o InsertByDate(r, Tail(s))

RECURSIVE ByDate(_)
ByDate(s) == IF s = <<>> THEN <<>> ELSE InsertByDate(Head(s), ByDate(Tail(s)))

\* the header of a dataset file: complete, or with columns left out
FileColumns ==
    {CsvColumns, CsvColumns \ {"kg_biological"}, CsvColumns \ {"kg_per_plant"},
     CsvColumns \ {"kg_biological", "temp_delta"},
     CsvColumns \ {"temp_delta", "kg_biological_14d_mean"}}

\* row orders of one file content
FileOrders(rows) == {rows, Reverse(rows), ByDate(rows)}

TrainInit ==
    /\ harvest = [v \in Varieties |-> EmptyTable]
    /\ weather = WeatherUpTo(0)
    /\ \E ks \in [Varieties -> 0 .. Len(TrainDates)] :
          \E rows \in FileOrders(CsvFile(ks)), columns \in FileColumns :
             dataset = [built |-> TRUE, table |-> <<>>, rows |-> rows, columns |-> columns]
    /\ model_data = DefaultArtifact
    /\ features = NoFeatures
    /\ train = NoTrain
    /\ plant_configs = {}
    /\ predictions = <<>>
    /\ run = NoRun
    /\ cron = NoCron
    /\ validation = NoValidation
    /\ conc = NoConc
    /\ imp = NoImport

\* the file exactly as create_ml_dataset writes it
TrainCsvInit ==
    /\ TrainInit
    /\ \E ks \in [Varieties -> 0 .. Len(TrainDates)] : dataset.rows = CsvFile(ks)
    /\ dataset.columns = CsvColumns

TrainNext == TrainSplit \/ TrainCandidate \/ TrainSave

SpecTrain == TrainInit /\ [][TrainNext]_vars

SpecTrainCsv == TrainCsvInit /\ [][TrainNext]_vars

\* ---------------------------------------------------- generate_predictions
\* end_date NULL
Null == 0

\* get_current_plant_config: the configurations of the variety in force on the
\* target date; the query takes the first of them
ConfigsInForce(configs, variety_id, target_date) ==
    {c \in configs : /\ c.variety_id = variety_id
                     /\ c.start_date <= target_date
                     /\ (c.end_date = Null \/ c.end_date >= target_date)}

\* round(x, 2) of a value that is not negative, ties to even
Round2(x) ==
    LET q  == (x.n * 100) \div x.d
        r  == (x.n * 100) % x.d
        up == 2 * r > x.d \/ (2 * r = x.d /\ q % 2 = 1)
    IN  IF x.d = 0 THEN x ELSE Rat(IF up THEN q + 1 ELSE q, 100)

\* model.predict: the fitted regressor, a function of the feature vector
predict(md, f) ==
    IF md.model_name = "Random Forest" THEN f.kg_biological_7d_mean
    ELSE f.kg_biological_prev_day

\* get_weather_forecast(days): forecast_days rows, the first one for today
get_weather_forecast(today, days) ==
    [i \in 1 .. days |-> [date |-> today + i - 1] @@ WeatherFeed(today + i - 1)]

\* joblib.load of the artifact file
GPLoadModel ==
    /\ run.pc = "start"
    /\ run' = IF model_data = NoArtifact
              THEN [run EXCEPT !.pc = "failed", !.error = "FileNotFoundError"]
              ELSE [run EXCEPT !.pc = "fetch"]
    /\ UNCHANGED <<aux, cron, stores, dataset, model_data, features, train, predictions>>

\* the forecast request either answers or raises
GPFetchForecast ==
    /\ run.pc = "fetch"
    /\ \/ run' = [run EXCEPT !.pc = "loop",
                             !.weather_forecasts = get_weather_forecast(run.today, run.days)]
       \/ run' = [run EXCEPT !.pc = "failed", !.error = "ConnectionError"]
    /\ UNCHANGED <<aux, cron, stores, dataset, model_data, features, train, predictions>>

\* the position after the body of the inner loop for (vi, day_offset)
NextPair(r) ==
    IF r.day_offset < r.days THEN [r EXCEPT !.day_offset = @ + 1, !.attempted = @ + 1]
    ELSE [r EXCEPT !.vi = @ + 1, !.day_offset = 1, !.attempted = @ + 1]

\* a session whose rows reach the table as they are added
close_session_flushed(session) == session

\* lines 276-282: db.close() without commit; the rows the session holds and
\* never committed are rolled back, none reaches the table
close_session(session) == <<>>

\* one pass of the loop body for the variety run.vi and the day run.day_offset
GPPair ==
    /\ run.pc = "loop"
    /\ run.vi <= NumVarieties
    /\ LET variety     == run.vi
           target_date == run.today + run.day_offset
           inForce     == ConfigsInForce(plant_configs, variety, target_date)
       IN  \E plants_nbrs \in IF inForce = {} THEN {0} ELSE {c.plants_nbrs : c \in inForce} :
             IF plants_nbrs = 0
             THEN /\ run' = [NextPair(run) EXCEPT
                                !.skips = Append(@, [variety |-> variety, target_date |-> target_date,
                                                      reason |-> "config"])]
                  /\ UNCHANGED <<features, predictions>>
             ELSE LET weather_dict == run.weather_forecasts[run.day_offset]
                      f == calculate_features(harvest, weather, variety, plants_nbrs,
                                              target_date, weather_dict, model_data)
                      kg_biological_pred == predict(model_data, f)
                      fraction == observed_fraction(weekday(target_date))
                      prediction ==
                          [prediction_date         |-> run.today,
                           target_date             |-> target_date,
                           variety_id              |-> variety,
                           plants_nbrs             |-> plants_nbrs,
                           kg_biological_predicted |-> Round2(kg_biological_pred),
                           kg_produced_predicted   |-> Round2(RMul(kg_biological_pred, fraction)),
                           harvest_fraction        |-> fraction]
                  IN  /\ features' = [variety |-> variety, target |-> target_date,
                                      plants_nbrs |-> plants_nbrs, f |-> f]
                      /\ predictions' = IF f.kind = "KeyError"
                                        THEN predictions \o close_session(run.session)
                                        ELSE predictions
                      /\ run' = CASE f.kind = "KeyError" ->
                                     [run EXCEPT !.pc = "failed", !.error = "KeyError",
                                                 !.attempted = @ + 1, !.session = <<>>]
                                  [] f.kind = "None" ->
                                     [NextPair(run) EXCEPT
                                        !.skips = Append(@, [variety |-> variety,
                                                             target_date |-> target_date,
                                                             reason |-> "history"])]
                                  [] OTHER ->
                                     [NextPair(run) EXCEPT
                                        !.session = Append(@, prediction),
                                        !.total_predictions = @ + 1]
    /\ UNCHANGED <<aux, cron, stores, dataset, model_data, train>>

\* db.commit() and the closing report
GPCommit ==
    /\ run.pc = "loop"
    /\ run.vi > NumVarieties
    /\ predictions' = predictions \o run.session
    /\ run' = [run EXCEPT !.pc = "done", !.reported = run.total_predictions]
    /\ UNCHANGED <<aux, cron, stores, dataset, model_data, features, train>>

\* lines 276-282: the handler prints the exception and the traceback, the
\* session is closed, and the function returns: whatever ended the run, its
\* caller gets a normal return
generate_predictions_outcome(r) ==
    IF r.pc \in {"done", "failed"} THEN "returned" ELSE "running"

\* cron_predictions.py 17-24: run_predictions around generate_predictions
CronCalled == [pc |-> "called", log |-> <<"start">>]

CronEnd ==
    /\ cron.pc = "called"
    /\ generate_predictions_outcome(run) # "running"
    /\ cron' = [cron EXCEPT
                   !.pc = "ended",
                   !.log = Append(@, IF generate_predictions_outcome(run) = "raised"
                                     THEN "error" ELSE "success")]
    /\ UNCHANGED <<aux, stores, dataset, model_data, features, train, predictions, run>>

\* the plant configurations of variety v in a run of `days` days from `today`
OpenConfig(v, plants) ==
    {[variety_id |-> v, start_date |-> 1, end_date |-> Null, plants_nbrs |-> plants]}

GapConfig(v, today, g) ==
    {[variety_id |-> v, start_date |-> 1, end_date |-> today + g - 1, plants_nbrs |-> 3],
     [variety_id |-> v, start_date |-> today + g + 1, end_date |-> Null, plants_nbrs |-> 3]}

ConfigChoices(v, today, days) ==
    {{}} \cup {OpenConfig(v, p) : p \in PlantsValues}
         \cup {GapConfig(v, today, g) : g \in 1 .. days}

\* a day after the stored history whose next day is a Sunday
SundayEve == CHOOSE d \in MaxDay + 1 .. MaxDay + HistDays - 1 : weekday(d + 1) = Sunday

Todays == {MaxDay, MaxDay + HistDays - 2, MaxDay + HistDays - 1, SundayEve}

ForecastInit ==
    /\ harvest \in [Varieties -> {EmptyTable, FullTable}]
    /\ \E last \in WeatherLasts : weather = WeatherUpTo(last)
    /\ dataset = NoDataset
    /\ model_data \in {DefaultArtifact, NoArtifact}
    /\ features = NoFeatures
    /\ train = NoTrain
    /\ \E today \in Todays :
          /\ run = [NoRun EXCEPT !.today = today, !.days = ForecastDays]
          /\ \E cs \in [Varieties -> UNION {ConfigChoices(v, today, ForecastDays) : v \in Varieties}] :
                /\ \A v \in Varieties : cs[v] \in ConfigChoices(v, today, ForecastDays)
                /\ plant_configs = UNION {cs[v] : v \in Varieties}
    /\ predictions = <<>>
    /\ cron = CronCalled
    /\ validation = NoValidation
    /\ conc = NoConc
    /\ imp = NoImport

ForecastNext == GPLoadModel \/ GPFetchForecast \/ GPPair \/ GPCommit \/ CronEnd

SpecForecast == ForecastInit /\ [][ForecastNext]_vars

\* ------------------------------------------- feature pipeline specification
FeatInit ==
    /\ \E t \in HarvestTables, rest \in {EmptyTable, FullTable} :
          harvest = [v \in Varieties |-> IF v = 1 THEN t ELSE rest]
    /\ \E last \in WeatherLasts : weather = WeatherUpTo(last)
    /\ dataset = NoDataset
    /\ model_data = DefaultArtifact
    /\ features = NoFeatures
    /\ train = NoTrain
    /\ plant_configs = {}
    /\ predictions = <<>>
    /\ run = NoRun
    /\ cron = NoCron
    /\ validation = NoValidation
    /\ conc = NoConc
    /\ imp = NoImport

CreateMlDataset ==
    /\ ~dataset.built
    /\ dataset' = create_ml_dataset(harvest, weather)
    /\ UNCHANGED <<aux, cron, stores, model_data, features, train, predictions, run>>

\* the artifact handed to calculate_features was trained on the dataset file
CalculateFeatures ==
    /\ dataset.built
    /\ features = NoFeatures
    /\ \E v \in Varieties, plants \in PlantsValues, target \in 1 .. MaxDay + 1 :
          features' = [variety |-> v, target |-> target, plants_nbrs |-> plants,
                       f |-> calculate_features(harvest, weather, v, plants, target,
                                                WeatherFeed(target), model_data)]
    /\ UNCHANGED <<aux, cron, stores, dataset, model_data, train, predictions, run>>

FeatNext == CreateMlDataset \/ CalculateFeatures

SpecFeatures == FeatInit /\ [][FeatNext]_vars

\* ------------------------------------------------------ validate_predictions
\* a Prediction row as generate_predictions stores it for (v, target)
StoredPrediction(v, target, made) ==
    LET fraction == observed_fraction(weekday(target))
    IN  [prediction_date         |-> made,
         target_date             |-> target,
         variety_id              |-> v,
         plants_nbrs             |-> 3,
         kg_biological_predicted |-> I(MaxKg),
         kg_produced_predicted   |-> Round2(RMul(I(MaxKg), fraction)),
         harvest_fraction        |-> fraction]

\* round(x, 1), ties to even
Round1(x) ==
    LET a  == Abs(x.n)
        q  == (a * 10) \div x.d
        r  == (a * 10) % x.d
        up == 2 * r > x.d \/ (2 * r = x.d /\ q % 2 = 1)
        m  == IF up THEN q + 1 ELSE q
    IN  IF x.d = 0 THEN x ELSE Rat(IF x.n < 0 THEN -m ELSE m, 10)

\* the validator compares every target but Sundays
skip_target_never(target) == FALSE

\* if target.weekday() == 6: continue
skip_target(target) == weekday(target) = Sunday

\* db.query(Prediction).filter(Prediction.target_date == target).all()
preds_for(table, target) == SelectSeq(table, LAMBDA p : p.target_date = target)

\* the join taken for granted
has_real_always(h, pred) == TRUE

\* real = db.query(HarvestRecord).filter(date, variety_id).first(); if not real
has_real(h, pred) ==
    /\ pred.target_date \in Days
    /\ h[pred.variety_id][pred.target_date] # NoHarvest

\* the kg_produced of the joined HarvestRecord
real_kg(h, pred) ==
    IF pred.target_date \in Days THEN h[pred.variety_id][pred.target_date].kg_produced ELSE -1

\* lines 69-92: the result row of a prediction and its realized harvest
result_row(h, pred) ==
    LET real      == I(real_kg(h, pred))
        error_kg  == RSub(pred.kg_produced_predicted, real)
        bio_real  == kg_biological_real(pred.harvest_fraction, real)
        error_bio == RSub(pred.kg_biological_predicted, bio_real)
    IN  [date      |-> pred.target_date,
         jour      |-> weekday(pred.target_date),
         variety   |-> pred.variety_id,
         bio_pred  |-> Round1(pred.kg_biological_predicted),
         bio_real  |-> Round1(bio_real),
         error_bio |-> Round1(error_bio),
         prod_pred |-> Round1(pred.kg_produced_predicted),
         prod_real |-> Round1(real),
         error_kg  |-> Round1(error_kg)]

\* lines 57-92: the rows added for the predictions of one target date
RECURSIVE day_results(_, _)
day_results(h, preds) ==
    IF preds = <<>> THEN <<>>
    ELSE (IF has_real(h, Head(preds)) THEN <<result_row(h, Head(preds))>> ELSE <<>>)
         \o day_results(h, Tail(preds))

\* lines 53-55, 64-66: the warnings printed for one target date
RECURSIVE day_reports(_, _, _)
day_reports(h, target, preds) ==
    IF preds = <<>> THEN <<>>
    ELSE (IF has_real(h, Head(preds)) THEN <<>>
          ELSE <<[date |-> target, variety |-> Head(preds).variety_id, what |-> "real"]>>)
         \o day_reports(h, target, Tail(preds))

\* lines 28-31: generate_predictions has no parameter test_date
ValGenerateFirst ==
    /\ validation.pc = "start"
    /\ validation' = IF validation.generate_first
                     THEN [validation EXCEPT !.pc = "raised", !.returned = "TypeError"]
                     ELSE [validation EXCEPT !.pc = "loop"]
    /\ UNCHANGED <<stores, dataset, model_data, features, train, predictions, run, cron,
                   conc, imp>>

\* lines 41-92: one pass of the loop over day_offset
ValDay ==
    /\ validation.pc = "loop"
    /\ validation.day_offset <= validation.days
    /\ LET target == validation.test_date + validation.day_offset
           preds  == preds_for(predictions, target)
       IN  validation' =
             IF skip_target(target)
             THEN [validation EXCEPT !.day_offset = @ + 1]
             ELSE IF preds = <<>>
             THEN [validation EXCEPT !.day_offset = @ + 1,
                      !.reports = Append(@, [date |-> target, variety |-> 0, what |-> "prediction"])]
             ELSE [validation EXCEPT !.day_offset = @ + 1,
                      !.results = @ \o day_results(harvest, preds),
                      !.reports = @ \o day_reports(harvest, target, preds)]
    /\ UNCHANGED <<stores, dataset, model_data, features, train, predictions, run, cron,
                   conc, imp>>

\* lines 94-186: nothing to compare returns None, else the statistics and df
ValFinish ==
    /\ validation.pc = "loop"
    /\ validation.day_offset > validation.days
    /\ validation' = [validation EXCEPT
                         !.pc = "returned",
                         !.returned = IF validation.results = <<>> THEN "None" ELSE "df"]
    /\ UNCHANGED <<stores, dataset, model_data, features, train, predictions, run, cron,
                   conc, imp>>

\* lines 119-130: the rows behind the overall statistics
overall_rows(v) == IF v.returned = "df" THEN v.results ELSE <<>>

\* lines 137-144: the rows behind the statistics of one variety
variety_rows(v, variety) == SelectSeq(overall_rows(v), LAMBDA r : r.variety = variety)

\* lines 152-157: the rows behind the statistics of one weekday, Lun .. Sam
jour_rows(v, jour) ==
    IF jour \in 0 .. 5 THEN SelectSeq(overall_rows(v), LAMBDA r : r.jour = jour) ELSE <<>>

\* the targets predictions are stored for: Saturday, Sunday and Monday of week 1
ValTargets == {d \in Days : d >= 2 /\ d <= 4}

ValTestDates == {0, 1}

\* the horizon of the validation: long enough to have a day after the Sunday
ValDays == ForecastDays + 1

RECURSIVE PredictionRows(_, _)
PredictionRows(pairs, made) ==
    IF pairs = <<>> THEN <<>>
    ELSE <<StoredPrediction(Head(pairs)[1], Head(pairs)[2], made)>> \o PredictionRows(Tail(pairs), made)

\* the pairs of a set, by variety and date
RECURSIVE PairSeq(_)
PairSeq(S) ==
    IF S = {} THEN <<>>
    ELSE LET m == CHOOSE x \in S : \A y \in S : x[1] < y[1] \/ (x[1] = y[1] /\ x[2] <= y[2])
         IN  <<m>> \o PairSeq(S \ {m})

\* the pairs of S an earlier run (made on day 0) had already forecast: none or one
Reforecasts(S) == {{}} \cup {{p} : p \in S}

ValidateInit ==
    /\ harvest \in [Varieties -> {EmptyTable, FullTable}]
    /\ weather = WeatherUpTo(MaxDay)
    /\ dataset = NoDataset
    /\ model_data = DefaultArtifact
    /\ features = NoFeatures
    /\ train = NoTrain
    /\ plant_configs = {}
    /\ \E S \in SUBSET (Varieties \X ValTargets) :
          \E R \in Reforecasts(S) :
             predictions = PredictionRows(PairSeq(R), 0) \o PredictionRows(PairSeq(S), 1)
    /\ run = NoRun
    /\ cron = NoCron
    /\ \E t \in ValTestDates, g \in BOOLEAN :
          validation = [NoValidation EXCEPT !.test_date = t, !.days = ValDays,
                                            !.generate_first = g]
    /\ conc = NoConc
    /\ imp = NoImport

ValidateNext == ValGenerateFirst \/ ValDay \/ ValFinish

SpecValidate == ValidateInit /\ [][ValidateNext]_vars

\* ------------------------------------------- concurrent generate_predictions
\* the ticks of datetime.now() the model follows
MaxClock == 2

\* the Variety rows of the database the two runs work on
ConcVarieties == {1}

\* lines 216-264 for one (variety, day_offset), as GPPair takes them: what the
\* loop body does with the session of the run, stamped with datetime.now()
pair_outcome(variety, today, day_offset, plants_nbrs, forecasts, now) ==
    LET target_date == today + day_offset
        f == calculate_features(harvest, weather, variety, plants_nbrs, target_date,
                                forecasts[day_offset], model_data)
        kg_biological_pred == predict(model_data, f)
        fraction == observed_fraction(weekday(target_date))
    IN  IF plants_nbrs = 0 THEN [kind |-> "skip"]
        ELSE IF f.kind = "KeyError" THEN [kind |-> "abort"]
        ELSE IF f.kind = "None" THEN [kind |-> "skip"]
        ELSE [kind |-> "row",
              row  |-> [prediction_date         |-> now,
                        target_date             |-> target_date,
                        variety_id              |-> variety,
                        plants_nbrs             |-> plants_nbrs,
                        kg_biological_predicted |-> Round2(kg_biological_pred),
                        kg_produced_predicted   |-> Round2(RMul(kg_biological_pred, fraction)),
                        harvest_fraction        |-> fraction]]

ConcRuns == {1, 2}

\* a run that has loaded the artifact and the forecast and enters its loops
ConcRun == [pc |-> "loop", vi |-> 1, day_offset |-> 1, session |-> <<>>,
            committed |-> <<>>, total_predictions |-> 0]

\* datetime.now() does not go back
ConcTick ==
    /\ conc.pc = "running"
    /\ conc.clock < MaxClock
    /\ conc' = [conc EXCEPT !.clock = @ + 1]
    /\ UNCHANGED <<stores, dataset, model_data, features, train, predictions, run, cron,
                   validation, imp>>

\* one pass of the loop body of run r
ConcPair(r) ==
    /\ conc.pc = "running"
    /\ conc.runs[r].pc = "loop"
    /\ conc.runs[r].vi <= Cardinality(ConcVarieties)
    /\ LET me      == conc.runs[r]
           variety == SetToSortedSeq(ConcVarieties)[me.vi]
           inForce == ConfigsInForce(plant_configs, variety, conc.today + me.day_offset)
           next    == IF me.day_offset < conc.days
                      THEN [me EXCEPT !.day_offset = @ + 1]
                      ELSE [me EXCEPT !.vi = @ + 1, !.day_offset = 1]
       IN  \E plants_nbrs \in IF inForce = {} THEN {0} ELSE {c.plants_nbrs : c \in inForce} :
             LET out == pair_outcome(variety, conc.today, me.day_offset, plants_nbrs,
                                     get_weather_forecast(conc.today, conc.days), conc.clock)
             IN  conc' = [conc EXCEPT !.runs[r] =
                            CASE out.kind = "abort" -> [me EXCEPT !.pc = "failed", !.session = <<>>]
                              [] out.kind = "skip"  -> next
                              [] OTHER -> [next EXCEPT !.session = Append(@, out.row),
                                                       !.total_predictions = @ + 1]]
    /\ UNCHANGED <<stores, dataset, model_data, features, train, predictions, run, cron,
                   validation, imp>>

\* a store that keeps one row per (variety, target_date): a new row replaces it
commit_rows_upsert(table, session) ==
    SelectSeq(table, LAMBDA p : ~\E i \in 1 .. Len(session) :
                                    /\ session[i].variety_id = p.variety_id
                                    /\ session[i].target_date = p.target_date)
    \o session

\* db.add(prediction) ... db.commit(): plain inserts, the table has no unique
\* constraint on (variety_id, target_date)
commit_rows(table, session) == table \o session

\* db.commit() of run r: its session rows are inserted
ConcCommit(r) ==
    /\ conc.pc = "running"
    /\ conc.runs[r].pc = "loop"
    /\ conc.runs[r].vi > Cardinality(ConcVarieties)
    /\ predictions' = commit_rows(predictions, conc.runs[r].session)
    /\ conc' = [conc EXCEPT !.runs[r].pc = "done", !.runs[r].committed = conc.runs[r].session]
    /\ UNCHANGED <<stores, dataset, model_data, features, train, run, cron, validation, imp>>

\* order_by(Prediction.prediction_date.desc()).first() among the rows of a pair:
\* a row with the greatest prediction_date, or 0 for None; among equal dates the
\* database returns the first or the last stored
latest_of(table, variety, target, pick) ==
    LET mine == {i \in 1 .. Len(table) : /\ table[i].variety_id = variety
                                         /\ table[i].target_date = target}
        top  == {i \in mine : \A j \in mine : table[j].prediction_date <= table[i].prediction_date}
    IN  IF mine = {} THEN 0
        ELSE IF pick = "first" THEN CHOOSE i \in top : \A j \in top : i <= j
        ELSE CHOOSE i \in top : \A j \in top : i >= j

\* routes.py 268-299: get_latest_predictions(days) on the committed rows
get_latest_predictions(table, varieties, today, days, pick) ==
    LET pairs == PairSeq(varieties \X (1 .. days))
        found == [k \in 1 .. Len(pairs) |->
                     latest_of(table, pairs[k][1], today + pairs[k][2], pick)]
    IN  SelectSeq(found, LAMBDA i : i # 0)

ConcLatest ==
    /\ conc.pc = "running"
    /\ ~conc.asked
    /\ \E pick \in {"first", "last"} :
          conc' = [conc EXCEPT
                      !.asked = TRUE,
                      !.seen = Len(predictions),
                      !.latest = get_latest_predictions(predictions, ConcVarieties, conc.today,
                                                        conc.days, pick)]
    /\ UNCHANGED <<stores, dataset, model_data, features, train, predictions, run, cron,
                   validation, imp>>

ConcInit ==
    /\ harvest = [v \in Varieties |-> FullTable]
    /\ \E last \in {0, MaxDay} : weather = WeatherUpTo(last)
    /\ dataset = NoDataset
    /\ model_data = DefaultArtifact
    /\ features = NoFeatures
    /\ train = NoTrain
    /\ \E cs \in ConfigChoices(1, MaxDay, ForecastDays) : plant_configs = cs
    /\ predictions = <<>>
    /\ run = NoRun
    /\ cron = NoCron
    /\ validation = NoValidation
    /\ conc = [pc |-> "running", today |-> MaxDay, days |-> ForecastDays, clock |-> 1,
               runs |-> [r \in ConcRuns |-> ConcRun], asked |-> FALSE, seen |-> 0,
               latest |-> <<>>]
    /\ imp = NoImport

ConcNext == ConcTick \/ (\E r \in ConcRuns : ConcPair(r) \/ ConcCommit(r)) \/ ConcLatest

SpecConcurrent == ConcInit /\ [][ConcNext]_vars

\* ------------------------------------------------ plant configuration routes
\* the PlantConfiguration rows the model lets the routes create
MaxConfigs == 2

ConfigDates == {1, 2, 3}

\* routes.py 197-216: POST /plant-configs for an existing variety (an unknown
\* variety is answered 404 and nothing is stored): the row is inserted as sent
CreatePlantConfiguration ==
    /\ Cardinality(plant_configs) < MaxConfigs
    /\ \E variety_id \in Varieties, start_date \in ConfigDates,
          end_date \in ConfigDates \cup {Null}, plants_nbrs \in PlantsValues :
          plant_configs' = plant_configs \cup
              {[id |-> Cardinality(plant_configs) + 1, variety_id |-> variety_id,
                start_date |-> start_date, end_date |-> end_date,
                plants_nbrs |-> plants_nbrs]}
    /\ UNCHANGED <<aux, cron, harvest, weather, dataset, model_data, features, train,
                   predictions, run>>

\* routes.py 219-241: PUT /plant-configs/{id} for an existing row (an unknown id
\* is answered 404): a field that is sent replaces the stored one; an end_date
\* of Null and plants_sent = FALSE stand for a field that is not sent
UpdatePlantConfiguration ==
    /\ \E config \in plant_configs, end_date \in ConfigDates \cup {Null},
          plants_sent \in BOOLEAN, plants_nbrs \in PlantsValues :
          plant_configs' = (plant_configs \ {config}) \cup
              {[config EXCEPT
                  !.end_date    = IF end_date # Null THEN end_date ELSE @,
                  !.plants_nbrs = IF plants_sent THEN plants_nbrs ELSE @]}
    /\ UNCHANGED <<aux, cron, harvest, weather, dataset, model_data, features, train,
                   predictions, run>>

ConfigsInit ==
    /\ harvest = [v \in Varieties |-> EmptyTable]
    /\ weather = WeatherUpTo(0)
    /\ dataset = NoDataset
    /\ model_data = DefaultArtifact
    /\ features = NoFeatures
    /\ train = NoTrain
    /\ plant_configs = {}
    /\ predictions = <<>>
    /\ run = NoRun
    /\ cron = NoCron
    /\ validation = NoValidation
    /\ conc = NoConc
    /\ imp = NoImport

ConfigsNext == CreatePlantConfiguration \/ UpdatePlantConfiguration

SpecConfigs == ConfigsInit /\ [][ConfigsNext]_vars

\* ------------------------------------------------------ import_harvest_data
\* how often the same file is imported
MaxImports == 2

\* SessionLocal comes from database.py: a SQLAlchemy sessionmaker whose autoflush
\* setting decides whether a query sees the rows added and not yet committed
SessionAutoflush == BOOLEAN

\* the 'Date' column of a sheet: empty, one date, two dates, one date twice
SheetChoices == {<<>>, <<1>>, <<1, 2>>, <<1, 1>>}

\* lines 53-56: the rows the duplicate query can see
visible_rows(m) == IF m.autoflush THEN m.table \o m.pending ELSE m.table

\* lines 53-59: existing = query(...).first()
existing(m, variety_id, date) ==
    \E i \in 1 .. Len(visible_rows(m)) :
        /\ visible_rows(m)[i].variety_id = variety_id
        /\ visible_rows(m)[i].date = date

\* lines 51-71: one row of the sheet of the variety imp.vi
ImportRow ==
    /\ imp.pc = "running"
    /\ imp.vi <= NumVarieties
    /\ imp.ri <= Len(imp.sheets[imp.vi])
    /\ LET date == imp.sheets[imp.vi][imp.ri]
       IN  imp' = IF existing(imp, imp.vi, date)
                  THEN [imp EXCEPT !.ri = @ + 1]
                  ELSE [imp EXCEPT !.ri = @ + 1,
                                   !.pending = Append(@, [variety_id |-> imp.vi, date |-> date]),
                                   !.total_imported = @ + 1]
    /\ UNCHANGED <<stores, dataset, model_data, features, train, predictions, run, cron,
                   validation, conc>>

\* line 73: db.commit() after the rows of a sheet
ImportSheetCommit ==
    /\ imp.pc = "running"
    /\ imp.vi <= NumVarieties
    /\ imp.ri > Len(imp.sheets[imp.vi])
    /\ imp' = [imp EXCEPT !.table = @ \o imp.pending, !.pending = <<>>,
                          !.vi = @ + 1, !.ri = 1]
    /\ UNCHANGED <<stores, dataset, model_data, features, train, predictions, run, cron,
                   validation, conc>>

\* line 76: the import is over; the same file may be imported again
ImportEnd ==
    /\ imp.pc = "running"
    /\ imp.vi > NumVarieties
    /\ imp' = IF imp.imports < MaxImports
              THEN [imp EXCEPT !.imports = @ + 1, !.vi = 1, !.ri = 1, !.total_imported = 0]
              ELSE [imp EXCEPT !.pc = "done"]
    /\ UNCHANGED <<stores, dataset, model_data, features, train, predictions, run, cron,
                   validation, conc>>

ImportInit ==
    /\ harvest = [v \in Varieties |-> EmptyTable]
    /\ weather = WeatherUpTo(0)
    /\ dataset = NoDataset
    /\ model_data = DefaultArtifact
    /\ features = NoFeatures
    /\ train = NoTrain
    /\ plant_configs = {}
    /\ predictions = <<>>
    /\ run = NoRun
    /\ cron = NoCron
    /\ validation = NoValidation
    /\ conc = NoConc
    /\ \E sheets \in [Varieties -> SheetChoices], autoflush \in SessionAutoflush :
          imp = [pc |-> "running", autoflush |-> autoflush, sheets |-> sheets,
                 table |-> <<>>, pending |-> <<>>, vi |-> 1, ri |-> 1, imports |-> 1,
                 total_imported |-> 0]

ImportNext == ImportRow \/ ImportSheetCommit \/ ImportEnd

SpecImport == ImportInit /\ [][ImportNext]_vars

\* ==================================================================== C1
\* the history rows calculate_features reads for (v, target)
HistDates(v, target) ==
    {d \in Days : d >= target - HistDays /\ d <= target - 1 /\ harvest[v][d] # NoHarvest}

WeatherHistDates(target) ==
    {d \in Days : d >= target - HistDays /\ d <= target - 1 /\ weather[d] # NoWeather}

ParityColumns == {"temp_mean_7d", "humidity_mean_7d", "precipitation_7d_sum",
                  "sunshine_7d_sum", "solar_radiation_7d_mean", "temp_delta",
                  "kg_biological_prev_day", "kg_biological_7d_mean",
                  "kg_biological_14d_mean"}

DatasetRowsAt(v, target) ==
    {i \in 1 .. Len(dataset.rows) :
        dataset.rows[i].variety = v /\ dataset.rows[i].date = target}

\* C1: batch/incremental parity.  Whenever calculate_features has been evaluated
\* for a variety at a date that is a row of the dataset built by
\* create_ml_dataset, it returned a feature vector whose rolling/lag columns
\* equal those of the batch row.
C1_BatchIncrementalParity ==
    (dataset.built /\ features # NoFeatures) =>
        \A i \in DatasetRowsAt(features.variety, features.target) :
            /\ features.f.kind = "features"
            /\ \A c \in ParityColumns : features.f[c] = dataset.rows[i][c]

\* ==================================================================== C2
\* C2: zero-fraction day.  A Sunday row has biological capacity 0 wherever the
\* capacity is derived from the observed kg: in the batch table, in the history
\* transform of calculate_features (seen in kg_biological_prev_day when the
\* day before the target is a Sunday with a harvest row) and in the validator.
C2_ZeroFractionDay ==
    /\ \A i \in 1 .. Len(dataset.table) :
          dataset.table[i].day_of_week = Sunday => dataset.table[i].kg_biological = I(0)
    /\ (/\ features.f.kind = "features"
        /\ features.target - 1 \in HistDates(features.variety, features.target)
        /\ weekday(features.target - 1) = Sunday)
          => features.f.kg_biological_prev_day = I(0)
    /\ \A kg \in 0 .. MaxKg : kg_biological_real(I(0), I(kg)) = I(0)

\* ==================================================================== C3
\* every dataset row converts back to its observed kg
DatasetRoundTrip ==
    \A i \in 1 .. Len(dataset.rows) :
        LET r == dataset.rows[i]
        IN  /\ kg_produced_pred(r.day_of_week, r.kg_biological) = r.kg_produced
            /\ RMul(r.kg_biological, observed_fraction(r.day_of_week)) = r.kg_produced

\* every weekday with a nonzero fraction converts every kg of 0 .. MaxKg back
WeekdayRoundTrip ==
    \A dow \in 0 .. 5, kg \in 0 .. MaxKg :
        /\ kg_produced_pred(dow, batch_kg_biological(dow, I(kg))) = I(kg)
        /\ RMul(batch_kg_biological(dow, I(kg)), observed_fraction(dow)) = I(kg)

\* C3: round trip.  For every dataset row (Monday to Saturday) the capacity the
\* batch path derived from the observed kg, converted back with the fraction
\* table of the trainer and of the forecast engine for the same weekday, is the
\* observed kg again; and so it is for every weekday with a nonzero fraction
\* and every kg of 0 .. MaxKg.
C3_RoundTrip == DatasetRoundTrip /\ WeekdayRoundTrip

\* a dataset holding a Thursday-Saturday row and a Monday-Wednesday row, both
\* with a harvest above zero
C3_Witness ==
    /\ \E i \in 1 .. Len(dataset.rows) :
          dataset.rows[i].day_of_week \in {3, 4, 5} /\ dataset.rows[i].kg_produced.n > 0
    /\ \E i \in 1 .. Len(dataset.rows) :
          dataset.rows[i].day_of_week \in {0, 1, 2} /\ dataset.rows[i].kg_produced.n > 0

\* =================================================================== C10
\* C10: rolling-window boundary.  Batch: the first row of a variety (one day of
\* history in the window) has 7-day and 14-day rolling means equal to that
\* day's own value, and every row has a rolling capacity mean.  Incremental:
\* with exactly one harvest row in the lookback the 7-day and 14-day capacity
\* means equal that row's capacity; with exactly one weather row the 7-day
\* weather means equal that row's values.
C10_RollingBoundary ==
    /\ \A i \in 1 .. Len(dataset.table) :
          LET r == dataset.table[i]
          IN  /\ ~IsNaN(r.kg_biological_7d_mean) /\ ~IsNaN(r.kg_biological_14d_mean)
              /\ (i = 1 \/ dataset.table[IF i = 1 THEN 1 ELSE i - 1].variety # r.variety) =>
                    /\ r.kg_biological_7d_mean = r.kg_biological
                    /\ r.kg_biological_14d_mean = r.kg_biological
                    /\ r.kg_produced_7d_mean = r.kg_produced
                    /\ r.temp_mean_7d = r.temperature_mean
                    /\ r.humidity_mean_7d = r.humidity_mean
                    /\ r.solar_radiation_7d_mean = r.solar_radiation
    /\ features.f.kind = "features" =>
          LET hd == HistDates(features.variety, features.target)
              wd == WeatherHistDates(features.target)
          IN  /\ Cardinality(hd) = 1 =>
                    LET d0 == CHOOSE d \in hd : TRUE
                        c0 == hist_kg_biological(weekday(d0),
                                                 I(harvest[features.variety][d0].kg_produced))
                    IN  /\ features.f.kg_biological_7d_mean = c0
                        /\ features.f.kg_biological_14d_mean = c0
              /\ Cardinality(wd) = 1 =>
                    LET d1 == CHOOSE d \in wd : TRUE
                    IN  /\ features.f.temp_mean_7d = weather[d1].temperature_mean
                        /\ features.f.humidity_mean_7d = weather[d1].humidity_mean
                        /\ features.f.solar_radiation_7d_mean = weather[d1].solar_radiation

\* both paths at the boundary: a batch table whose first row has a harvest above
\* zero, and a feature vector built from a single harvest row above zero
C10_Witness ==
    /\ Len(dataset.table) >= 2
    /\ dataset.table[1].kg_produced.n > 0
    /\ features.f.kind = "features"
    /\ Cardinality(HistDates(features.variety, features.target)) = 1
    /\ \E d \in HistDates(features.variety, features.target) :
          harvest[features.variety][d].kg_produced > 0 /\ d < features.target - 1

\* ==================================================================== C4
SplitDone == train.pc \in {"loop", "ValueError", "saved"}

\* C4: chronological split.  Once train_biological_model has split the rows,
\* every training row has a date less than or equal to the date of every
\* held-out row.
C4_ChronologicalSplit ==
    SplitDone =>
        \A i \in 1 .. Len(train.X_train), j \in 1 .. Len(train.X_test) :
            train.X_train[i].date <= train.X_test[j].date

\* ==================================================================== C5
Range(s) == {s[i] : i \in 1 .. Len(s)}

\* C5: split determinism.  The split index is a function of the row count, and
\* the partition of this run is the partition the split makes of the same rows
\* read in any other file order.
C5_SplitDeterminism ==
    SplitDone =>
        /\ train.split_idx = split_idx(Len(dataset.rows))
        /\ \A o \in FileOrders(dataset.rows) :
              /\ Range(X_train(o)) = Range(train.X_train)
              /\ Range(X_test(o)) = Range(train.X_test)

\* ==================================================================== C6
CandidateIndex(name) == CHOOSE c \in 1 .. Len(Candidates) : Candidates[c] = name

\* C6: model selection.  After the candidate loop the selected model is a
\* candidate whose held-out MAE is the minimum over all candidates, no candidate
\* declared before it has that MAE, and it is the one the artifact names.
C6_ModelSelection ==
    (train.pc \in {"loop", "saved"} /\ train.cand > Len(Candidates)) =>
        /\ train.best_name \in Range(Candidates)
        /\ LET b == CandidateIndex(train.best_name)
           IN  /\ train.best_score = train.results[b]
               /\ \A c \in 1 .. Len(Candidates) : ~RLess(train.results[c], train.results[b])
               /\ \A c \in 1 .. b - 1 : train.results[c] # train.results[b]
        /\ train.pc = "saved" => model_data.model_name = train.best_name

\* the artifact is written after a loop in which both candidates scored the
\* same held-out MAE
C6_Witness ==
    /\ train.pc = "saved"
    /\ train.results[1] = train.results[2]
    /\ train.results[1] = I(1)

\* ==================================================================== C7
AllPairs == Varieties \X (1 .. run.days)

Covered(pair) == ConfigsInForce(plant_configs, pair[1], run.today + pair[2]) # {}

HasHistory(pair) == HistDates(pair[1], run.today + pair[2]) # {}

\* the run went into its loop and has ended
RunOver == run.pc \in {"done", "failed"} /\ run.weather_forecasts # <<>>

\* C7: skip semantics.  A run in which exactly one (variety, day) pair has no
\* plant configuration in force and every pair has harvest history ends with
\* V * N - 1 prediction rows persisted, that total reported, and one skip.
C7_SkipSemantics ==
    (/\ RunOver
     /\ Cardinality({pair \in AllPairs : ~Covered(pair)}) = 1
     /\ \A pair \in AllPairs : HasHistory(pair))
        => /\ Len(predictions) = NumVarieties * run.days - 1
           /\ run.reported = NumVarieties * run.days - 1
           /\ Len(run.skips) = 1

\* ==================================================================== C8
\* C8: no abort on a unit of work.  A run that went into its loop attempts every
\* (variety, day) pair and ends by reporting the total of predictions written.
C8_RunNeverAborts ==
    RunOver =>
        /\ run.pc = "done"
        /\ run.attempted = NumVarieties * run.days
        /\ run.reported = run.total_predictions

\* ==================================================================== C9
\* C9: no-history rejection.  Called for a variety with no harvest row in the
\* lookback, calculate_features returns no feature vector, and no prediction
\* row, pending or persisted, is for a pair without harvest history.
C9_NoHistoryRejection ==
    /\ (features # NoFeatures /\ HistDates(features.variety, features.target) = {})
          => features.f.kind = "None"
    /\ \A i \in 1 .. Len(run.session) :
          HistDates(run.session[i].variety_id, run.session[i].target_date) # {}
    /\ \A i \in 1 .. Len(predictions) :
          HistDates(predictions[i].variety_id, predictions[i].target_date) # {}

\* a finished run that skipped a pair for lack of history (its plant
\* configuration in force) and persisted predictions for other pairs
C9_Witness ==
    /\ run.pc = "done"
    /\ Len(predictions) > 0
    /\ \E i \in 1 .. Len(run.skips) :
          /\ run.skips[i].reason = "history"
          /\ ConfigsInForce(plant_configs, run.skips[i].variety, run.skips[i].target_date) # {}
          /\ HistDates(run.skips[i].variety, run.skips[i].target_date) = {}

\* =================================================================== C11
\* the target dates the validation loop has gone through
ValTargetsDone ==
    {validation.test_date + o : o \in 1 .. validation.day_offset - 1}

\* a HarvestRecord exists for the variety and the date
Realized(v, d) == d \in Days /\ harvest[v][d] # NoHarvest

\* C11: validator exclusion.  No result row of validate_predictions has a Sunday
\* target date, and neither do the rows behind the overall statistics, the
\* statistics of any variety or the statistics of any weekday.
C11_ValidatorExclusion ==
    /\ \A i \in 1 .. Len(validation.results) :
          weekday(validation.results[i].date) # Sunday
    /\ \A i \in 1 .. Len(overall_rows(validation)) :
          weekday(overall_rows(validation)[i].date) # Sunday
    /\ \A v \in Varieties : \A i \in 1 .. Len(variety_rows(validation, v)) :
          weekday(variety_rows(validation, v)[i].date) # Sunday
    /\ \A j \in 0 .. 6 : \A i \in 1 .. Len(jour_rows(validation, j)) :
          weekday(jour_rows(validation, j)[i].date) # Sunday

\* a finished validation with statistics, whose window held a Sunday with both a
\* stored prediction and a harvest record
C11_Witness ==
    /\ validation.returned = "df"
    /\ \E i \in 1 .. Len(predictions) :
          /\ predictions[i].target_date \in ValTargetsDone
          /\ weekday(predictions[i].target_date) = Sunday
          /\ Realized(predictions[i].variety_id, predictions[i].target_date)

\* =================================================================== C12
\* the stored predictions of a target date
StoredFor(d) == {i \in 1 .. Len(predictions) : predictions[i].target_date = d}

Reported(d, v, what) ==
    \E i \in 1 .. Len(validation.reports) :
        validation.reports[i] = [date |-> d, variety |-> v, what |-> what]

Compared(d, v) ==
    \E i \in 1 .. Len(validation.results) :
        validation.results[i].date = d /\ validation.results[i].variety = v

\* C12: the validator never raises on a missing join.  The comparison never ends
\* in an exception; for every target date it has gone through (Sundays apart) a
\* date without Prediction is reported, a Prediction without HarvestRecord is
\* reported and left out, every other Prediction of that date and of the later
\* dates is compared; with nothing to compare the run returns None.
C12_NoRaiseOnMissingJoin ==
    /\ validation.pc = "raised" => validation.generate_first
    /\ \A d \in ValTargetsDone :
          weekday(d) # Sunday =>
             /\ StoredFor(d) = {} => Reported(d, 0, "prediction")
             /\ \A i \in StoredFor(d) :
                   IF Realized(predictions[i].variety_id, d)
                   THEN Compared(d, predictions[i].variety_id)
                   ELSE /\ Reported(d, predictions[i].variety_id, "real")
                        /\ ~Compared(d, predictions[i].variety_id)
    /\ \A i \in 1 .. Len(validation.results) :
          Realized(validation.results[i].variety, validation.results[i].date)
    /\ (validation.pc = "returned" /\ validation.results = <<>>) =>
          validation.returned = "None"

\* a finished validation that reported a date without prediction and a
\* prediction without harvest record, and went on to compare a later prediction
C12_Witness ==
    /\ validation.pc = "returned"
    /\ \E d1, d2 \in ValTargetsDone, v1, v2 \in Varieties :
          /\ d1 < d2
          /\ Reported(d1, 0, "prediction")
          /\ Reported(d2, v1, "real")
          /\ Compared(d2, v2)

\* =================================================================== C13
\* C13: a failure of the weather-forecast fetch reaches the caller of
\* generate_predictions as an error: when the fetch of a run failed, the
\* scheduler job that called the run got an exception and logged the error.
C13_FetchErrorPropagates ==
    (cron.pc = "ended" /\ run.error = "ConnectionError") =>
        /\ generate_predictions_outcome(run) = "raised"
        /\ cron.log[Len(cron.log)] = "error"

\* =================================================================== C14
\* the trainer went past reading the file
TrainStarted == train.pc # "start"

\* C14: a dataset without the column kg_biological makes train_biological_model
\* fail at once with an error naming the column: no candidate is fitted, no
\* artifact is written and no other column becomes the target.
C14_MissingTargetFailsFast ==
    (TrainStarted /\ "kg_biological" \notin dataset.columns) =>
        /\ train.pc = "NoTarget"
        /\ train.error = "ValueError: Colonne 'kg_biological' manquante"
        /\ train.target = ""
        /\ train.cand = 1
        /\ \A c \in 1 .. Len(Candidates) : IsNaN(train.results[c])
        /\ model_data = DefaultArtifact

\* the trainer stopped on a file that has rows and features but no kg_biological
C14_Witness ==
    /\ train.pc = "NoTarget"
    /\ Len(dataset.rows) >= CvFolds
    /\ "kg_produced" \in dataset.columns

\* =================================================================== C15
\* the required feature columns the file lacks
MissingFeatures ==
    {FeatureColumns[i] : i \in 1 .. Len(FeatureColumns)} \ (dataset.columns \cup {"variety_encoded"})

\* C15: a dataset lacking a column of the feature list aborts the training run
\* with a diagnostic: no candidate is fitted and no artifact is saved with a
\* reduced feature list.
C15_MissingFeatureAborts ==
    (TrainStarted /\ MissingFeatures # {}) =>
        /\ train.pc \notin {"loop", "saved"}
        /\ train.cand = 1
        /\ model_data.feature_columns = FeatureColumns

\* =================================================================== C16
\* the rows of a committed run are in the table, each as often as the run made it
StoredCount(row) == Cardinality({i \in 1 .. Len(predictions) : predictions[i] = row})

MadeCount(row) ==
    LET made(r) == conc.runs[r].committed
    IN  Cardinality({<<r, i>> \in ConcRuns \X (1 .. Len(predictions)) :
                        i <= Len(made(r)) /\ made(r)[i] = row})

\* the rows the reporting query saw
SeenRows == SubSeq(predictions, 1, conc.seen)

\* C16: concurrent runs are tolerated.  Under every interleaving of two forecast
\* runs the committed rows of both are all in the table, none lost or
\* overwritten, and the reporting query returns for each (variety, target_date)
\* at most one row, one with the greatest prediction_date among the rows stored
\* for the pair when it ran.
C16_ConcurrentRuns ==
    /\ Len(predictions) = Len(conc.runs[1].committed) + Len(conc.runs[2].committed)
    /\ \A i \in 1 .. Len(predictions) : StoredCount(predictions[i]) = MadeCount(predictions[i])
    /\ conc.asked =>
          /\ \A a, b \in 1 .. Len(conc.latest) :
                (/\ SeenRows[conc.latest[a]].variety_id = SeenRows[conc.latest[b]].variety_id
                 /\ SeenRows[conc.latest[a]].target_date = SeenRows[conc.latest[b]].target_date)
                   => a = b
          /\ \A a \in 1 .. Len(conc.latest) : \A j \in 1 .. conc.seen :
                (/\ SeenRows[j].variety_id = SeenRows[conc.latest[a]].variety_id
                 /\ SeenRows[j].target_date = SeenRows[conc.latest[a]].target_date)
                   => SeenRows[j].prediction_date <= SeenRows[conc.latest[a]].prediction_date
          /\ \A j \in 1 .. conc.seen :
                (SeenRows[j].target_date \in {conc.today + o : o \in 1 .. conc.days})
                   => \E a \in 1 .. Len(conc.latest) :
                         /\ SeenRows[conc.latest[a]].variety_id = SeenRows[j].variety_id
                         /\ SeenRows[conc.latest[a]].target_date = SeenRows[j].target_date

\* both runs committed rows for the same pair, made at different times, the
\* older one stored last, and the query ran after both
C16_Witness ==
    /\ conc.asked
    /\ conc.seen = Len(predictions)
    /\ \E i, j \in 1 .. Len(predictions) :
          /\ i < j
          /\ predictions[i].variety_id = predictions[j].variety_id
          /\ predictions[i].target_date = predictions[j].target_date
          /\ predictions[i].prediction_date > predictions[j].prediction_date

\* =================================================================== C17
\* the dates of the model's calendar a configuration covers
CoveredDates(c) ==
    {d \in 1 .. MaxDay + HistDays :
        c.start_date <= d /\ (c.end_date = Null \/ c.end_date >= d)}

\* C17: plant-configuration invariant.  After any sequence of creations and
\* updates every variety has at most one open-ended configuration, no two
\* configurations of a variety overlap, and so at most one configuration of a
\* variety is in force on any date.
C17_PlantConfigInvariant ==
    /\ \A v \in Varieties :
          Cardinality({c \in plant_configs : c.variety_id = v /\ c.end_date = Null}) <= 1
    /\ \A a, b \in plant_configs :
          (a # b /\ a.variety_id = b.variety_id) => CoveredDates(a) \cap CoveredDates(b) = {}
    /\ \A v \in Varieties, d \in 1 .. MaxDay + HistDays :
          Cardinality(ConfigsInForce(plant_configs, v, d)) <= 1

C19_TargetDateWeather ==
    features.f.kind = "features" =>
        \E i \in 1 .. Len(run.weather_forecasts) :
            /\ run.weather_forecasts[i].date = features.target
            /\ \A c \in WeatherColumns : features.f[c] = run.weather_forecasts[i][c]

\* =================================================================== C20
\* the yield the specification defines from a row's own columns
YieldOf(r) == RDiv(r.kg_biological_prev_day, RAdd(r.plants_nbrs, I(1)))

\* every row of the dataset file carries that yield
BatchYield == \A i \in 1 .. Len(dataset.rows) : dataset.rows[i].kg_per_plant = YieldOf(dataset.rows[i])

\* every feature vector of calculate_features carries that yield
IncrementalYield == features.f.kind = "features" => features.f.kg_per_plant = YieldOf(features.f)

\* C20: yield feature.  In the batch dataset and in the incremental feature
\* vector kg_per_plant is the previous day's biological capacity divided by
\* (plants_count + 1), whatever the plants count, 0 included.
C20_YieldFeature == BatchYield /\ IncrementalYield

\* =================================================================== C21
\* C21: variety encoding consistency.  Once the artifact is saved, every
\* variety of the training file gets from calculate_features the code it had
\* in the training features, whatever the row order of the file.
C21_VarietyEncoding ==
    train.pc = "saved" =>
        \A v \in {train.df[i].variety : i \in 1 .. Len(train.df)} :
            variety_encoded(model_data, v) = categorical_code(train.df, v)

\* =================================================================== C22
\* |a - b| <= 1/100 for two finite values
Within1Cent(a, b) ==
    /\ a.d > 0 /\ b.d > 0
    /\ 100 * (a.n * b.d - b.n * a.d) <= a.d * b.d
    /\ 100 * (b.n * a.d - a.n * b.d) <= a.d * b.d

\* every persisted row carries the fraction of the weekday of its target date
StoredFraction ==
    \A i \in 1 .. Len(predictions) :
        predictions[i].harvest_fraction = harvest_fraction_map(weekday(predictions[i].target_date))

FirstRecord(v) == CHOOSE d \in Days : /\ harvest[v][d] # NoHarvest
                                      /\ \A e \in Days : harvest[v][e] # NoHarvest => d <= e

\* C23: days_since_season_start has one definition in both paths.  For a
\* variety and a date that is a row of the dataset and for which
\* calculate_features built a vector, both values are the number of days since
\* the first record of the variety.
C23_SeasonStartParity ==
    (dataset.built /\ features.f.kind = "features") =>
        \A i \in DatasetRowsAt(features.variety, features.target) :
            /\ dataset.rows[i].days_since_season_start = features.target - FirstRecord(features.variety)
            /\ features.f.days_since_season_start = dataset.rows[i].days_since_season_start

\* =================================================================== C24
\* every skipped pair lacks a covering configuration or a history row
SkipsJustified ==
    \A i \in 1 .. Len(run.skips) :
        \/ ConfigsInForce(plant_configs, run.skips[i].variety, run.skips[i].target_date) = {}
        \/ hist_dates(harvest, run.skips[i].variety, run.skips[i].target_date) = <<>>

\* after the run every covered pair with history has exactly one row
CoveredPairsPredicted ==
    run.pc \in {"done", "failed"} /\ run.weather_forecasts # <<>> =>
        \A v \in Varieties, o \in 1 .. run.days :
            (/\ ConfigsInForce(plant_configs, v, run.today + o) # {}
             /\ hist_dates(harvest, v, run.today + o) # <<>>)
            => Cardinality({i \in 1 .. Len(predictions) :
                               /\ predictions[i].variety_id = v
                               /\ predictions[i].target_date = run.today + o}) = 1

\* C24: a pair of a forecast run is skipped only when no plant configuration
\* covers its target date or when its lookback holds no harvest row; a pair
\* with a covering configuration, whatever its plants count, and a history row
\* yields exactly one Prediction row.
C24_SkipReasons == SkipsJustified /\ CoveredPairsPredicted

\* =================================================================== C25
\* C25: the saved dataset holds no Sunday row and no row with a missing value,
\* and the rows are removed after the features are computed: a row whose
\* previous calendar day has a harvest record, a Sunday included, carries that
\* record in its lag columns.
C25_CleanAfterFeatures ==
    \A i \in 1 .. Len(dataset.rows) :
        LET r == dataset.rows[i]
        IN  /\ weekday(r.date) # Sunday
            /\ \A c \in FloatColumns : ~IsNaN(r[c])
            /\ harvest[r.variety][r.date - 1] # NoHarvest =>
                  /\ r.kg_produced_prev_day = I(harvest[r.variety][r.date - 1].kg_produced)
                  /\ r.kg_biological_prev_day =
                        (IF weekday(r.date - 1) = Sunday THEN I(0)
                         ELSE RDiv(I(harvest[r.variety][r.date - 1].kg_produced),
                                   harvest_fraction(weekday(r.date - 1))))

\* a saved Monday row behind a Sunday record with a harvest, in a table that
\* lost its Sunday row and a row with a missing value
C25_Witness ==
    /\ \E i \in 1 .. Len(dataset.rows) :
          /\ weekday(dataset.rows[i].date) = 0
          /\ harvest[dataset.rows[i].variety][dataset.rows[i].date - 1].kg_produced > 0
    /\ \E j \in 1 .. Len(dataset.table) : dataset.table[j].day_of_week = Sunday
    /\ \E j \in 1 .. Len(dataset.table) :
          /\ dataset.table[j].day_of_week # Sunday
          /\ HasNaN(dataset.table[j])

\* =================================================================== C26
\* C26: a validation called with generate_first = True generates the
\* predictions and goes on to the comparison: the generation step never ends
\* the call with an error.
C26_GenerateFirstProceeds ==
    validation.generate_first => validation.pc # "raised" /\ validation.returned # "TypeError"

\* =================================================================== C27
\* C27: in the result of the validator each (variety, target date) stands for at
\* most one row of the aggregate statistics, however many forecasts of the pair
\* are stored.
C27_OneRowPerPair ==
    \A i, j \in 1 .. Len(overall_rows(validation)) :
        (/\ overall_rows(validation)[i].variety = overall_rows(validation)[j].variety
         /\ overall_rows(validation)[i].date = overall_rows(validation)[j].date) => i = j

\* =================================================================== C28
\* C28: a forecast run is all-or-nothing with a truthful count.  A run that
\* ends well persists every row it added and reports that number; a run that
\* ends in an error persists none; before the end the table holds no row of
\* the run.
C28_AllOrNothing ==
    /\ run.pc = "done" =>
          /\ Len(predictions) = run.total_predictions
          /\ run.reported = Len(predictions)
    /\ run.pc # "done" => predictions = <<>>

\* a run that had added a row when it hit an error, and a run that committed
\* more than one row, are both reachable; this is the first
C28_Witness ==
    /\ run.pc = "failed"
    /\ run.total_predictions > 0
    /\ predictions = <<>>

\* =================================================================== C29
\* C29: the scheduled job logs success only for a run that completed and
\* committed; for a failed run it logs an error and no success.
C29_TruthfulJobLog ==
    cron.pc = "ended" =>
        /\ (\E i \in 1 .. Len(cron.log) : cron.log[i] = "success") => run.pc = "done"
        /\ run.pc = "failed" => \E i \in 1 .. Len(cron.log) : cron.log[i] = "error"

\* =================================================================== C30
\* the model inputs derived from the harvest
HarvestInputs == {"kg_biological_prev_day", "kg_biological_7d_mean",
                  "kg_biological_14d_mean", "kg_per_plant"}

\* the batch row of (v, d) when the record of that day had kg as its harvest
RowWithKg(v, d, kg) ==
    LET h  == [harvest EXCEPT ![v][d].kg_produced = kg]
        vf == variety_features(h, weather, v)
    IN  vf[CHOOSE i \in 1 .. Len(vf) : vf[i].date = d]

\* C30: no target leakage in the batch features.  For every row of the dataset,
\* replacing the row's own kg_produced by another value changes none of the
\* model inputs derived from the harvest: they depend on earlier records only.
C30_NoTargetLeakage ==
    \A i \in 1 .. Len(dataset.rows) :
        \A kg \in {hv.kg_produced : hv \in HarvestValues}, c \in HarvestInputs :
            RowWithKg(dataset.rows[i].variety, dataset.rows[i].date, kg)[c] = dataset.rows[i][c]

====
